---------------------------- MODULE Spec2Model ----------------------------
(***************************************************************************)
(* A model of the cookie codec (src/src/index.ts) and of the typed wrapper *)
(* (src/src/typed.ts, with the getCookie of src/unnamed/part_001, which    *)
(* throws where the other logs). A JavaScript string is a sequence of      *)
(* UTF-16 code units (naturals below 65536). Every exported function is an *)
(* action that runs the pending call and records its outcome (a returned   *)
(* value or a thrown error) and what it wrote to console.error.            *)
(***************************************************************************)
EXTENDS Integers, Sequences, FiniteSets, TLC

VARIABLES pc, call, ret, log, validated

vars == <<pc, call, ret, log, validated>>

----------------------------------------------------------------------------
(* Bounds of the model. *)

MaxNameLen == 2
MaxValueLen == 2
MaxHeaderLen == 7
MaxStringLen == 2
MaxGetNameLen == 1
MaxEntries == 1

----------------------------------------------------------------------------
(* Code units the source names in its literals. *)

chSpace == 32
chBang == 33
chQuote == 34
chHash == 35
chPlus == 43
chMinus == 45
chDot == 46
chSlash == 47
chColon == 58
chSemi == 59
chLess == 60
chEq == 61
chLBracket == 91
chBackslash == 92
chRBracket == 93
chCaret == 94
chUnderscore == 95
chPipe == 124
chTilde == 126

(* JavaScript's undefined and null, as values no string equals. *)
undefined == <<-1>>
null == <<-2>>

----------------------------------------------------------------------------
(* Strings *)

RECURSIVE StringsUpTo(_, _)
StringsUpTo(chars, n) ==
    IF n = 0 THEN {<<>>}
    ELSE LET shorter == StringsUpTo(chars, n - 1)
         IN  shorter \cup {Append(s, c) : s \in {t \in shorter : Len(t) = n - 1}, c \in chars}

Slice(s, from, to) == SubSeq(s, from + 1, to)

StartsWithAt(s, i, sep) ==
    /\ i + Len(sep) <= Len(s)
    /\ \A k \in 1..Len(sep) : s[i + k] = sep[k]

(* String.prototype.indexOf: the 0-based index of the first occurrence, or -1. *)
IndexOf(s, sep) ==
    LET hits == {i \in 0..Len(s) : StartsWithAt(s, i, sep)}
    IN  IF hits = {} THEN -1 ELSE CHOOSE i \in hits : \A j \in hits : i <= j

(* String.prototype.split with a non-empty string separator. *)
RECURSIVE Split(_, _)
Split(s, sep) ==
    LET i == IndexOf(s, sep)
    IN  IF i = -1 THEN <<s>>
        ELSE <<Slice(s, 0, i)>> \o Split(Slice(s, i + Len(sep), Len(s)), sep)

----------------------------------------------------------------------------
(* Map<string, string>: entries in insertion order, keys unique. *)

MapHas(m, k) == \E i \in 1..Len(m) : m[i].key = k

MapGet(m, k) ==
    IF MapHas(m, k) THEN m[CHOOSE i \in 1..Len(m) : m[i].key = k].value ELSE undefined

(* Map.prototype.set: an existing key keeps its position. *)
MapSet(m, k, v) ==
    IF MapHas(m, k)
    THEN [i \in 1..Len(m) |-> IF m[i].key = k THEN [key |-> k, value |-> v] ELSE m[i]]
    ELSE Append(m, [key |-> k, value |-> v])

----------------------------------------------------------------------------
(* src/src/index.ts *)

(* Canonicalize of a case-insensitive, non-unicode RegExp: toUpperCase,     *)
(* except that a non-ASCII code unit never maps to an ASCII one.            *)
Canonicalize(c) == IF c >= 97 /\ c <= 122 THEN c - 32 ELSE c

\* The character class of assertValidCookieName:  ! #-+ - . \d ^-z | ~
NameClass(c) ==
    \/ c = chBang
    \/ c >= chHash /\ c <= chPlus
    \/ c = chMinus
    \/ c = chDot
    \/ c >= 48 /\ c <= 57
    \/ c >= chCaret /\ c <= 122
    \/ c = chPipe
    \/ c = chTilde

(* A code unit matches the class under the i flag when its canonical form   *)
(* is the canonical form of a member of the class.                          *)
NameClassIgnoreCase(c) == \E d \in 0..127 : NameClass(d) /\ Canonicalize(d) = Canonicalize(c)

\* The name pattern ^class+$ with the i flag, applied by test().
NameRegexTest(name) ==
    /\ Len(name) >= 1
    /\ \A i \in 1..Len(name) : NameClassIgnoreCase(name[i])

SyntaxError(message) == [kind |-> "throw", error |-> "SyntaxError", message |-> message]

Return(value) == [kind |-> "return", value |-> value]

(* assertValidCookieName: TRUE when it throws. *)
assertValidCookieNameThrows(name) == ~NameRegexTest(name)

\* The character class of setCookie's value check:  ! #-+ --: <-[ ]-~
ValueClass(c) ==
    \/ c = chBang
    \/ c >= chHash /\ c <= chPlus
    \/ c >= chMinus /\ c <= chColon
    \/ c >= chLess /\ c <= chLBracket
    \/ c >= chRBracket /\ c <= chTilde

\* The value pattern of setCookie is  ^(?:class*)|(?:"class*")$ : the alternation
\* binds loosest, so it reads  ^class*  or  "class*"$ , and test() searches
\* for a match at every start position.
ValueRegexFirstAlternative(value) ==
    \E n \in 0..Len(value) : \A i \in 1..n : ValueClass(value[i])

ValueRegexSecondAlternative(value) ==
    \E from \in 1..Len(value) :
        /\ from < Len(value)
        /\ value[from] = chQuote
        /\ value[Len(value)] = chQuote
        /\ \A i \in (from + 1)..(Len(value) - 1) : ValueClass(value[i])

ValueRegexTest(value) ==
    ValueRegexFirstAlternative(value) \/ ValueRegexSecondAlternative(value)

(* ";max-age=31536000;path=/;sameSite=lax" *)
DefaultAttributes ==
    <<59, 109, 97, 120, 45, 97, 103, 101, 61, 51, 49, 53, 51, 54, 48, 48, 48,
      59, 112, 97, 116, 104, 61, 47,
      59, 115, 97, 109, 101, 83, 105, 116, 101, 61, 108, 97, 120>>

(* ";max-age=0;path=/;sameSite=lax" *)
DeleteAttributes ==
    <<59, 109, 97, 120, 45, 97, 103, 101, 61, 48,
      59, 112, 97, 116, 104, 61, 47,
      59, 115, 97, 109, 101, 83, 105, 116, 101, 61, 108, 97, 120>>

(* A bug: the supplied attributes are dropped. *)
AttributesOrDefault_IgnoreSupplied(attributes) == DefaultAttributes

(* options?.attributes || default: undefined and the empty string are falsy. *)
AttributesOrDefault(attributes) ==
    IF attributes = undefined \/ attributes = <<>> THEN DefaultAttributes ELSE attributes

(* A bug: lastIndexOf in place of indexOf. *)
LastIndexOf(s, sep) ==
    LET hits == {i \in 0..Len(s) : StartsWithAt(s, i, sep)}
    IN  IF hits = {} THEN -1 ELSE CHOOSE i \in hits : \A j \in hits : i >= j

RECURSIVE ParseTokens_LastEquals(_, _)
ParseTokens_LastEquals(tokens, parsedCookies) ==
    IF tokens = <<>> THEN parsedCookies
    ELSE LET cookie == Head(tokens)
             index == LastIndexOf(cookie, <<chEq>>)
         IN  ParseTokens_LastEquals(
                 Tail(tokens),
                 IF index = -1
                 THEN MapSet(parsedCookies, <<>>, cookie)
                 ELSE MapSet(parsedCookies, Slice(cookie, 0, index),
                             Slice(cookie, index + 1, Len(cookie))))

(* The loop of parseCookies over the tokens. *)
RECURSIVE ParseTokens(_, _)
ParseTokens(tokens, parsedCookies) ==
    IF tokens = <<>> THEN parsedCookies
    ELSE LET cookie == Head(tokens)
             index == IndexOf(cookie, <<chEq>>)
         IN  ParseTokens(
                 Tail(tokens),
                 IF index = -1
                 THEN MapSet(parsedCookies, <<>>, cookie)
                 ELSE MapSet(parsedCookies, Slice(cookie, 0, index),
                             Slice(cookie, index + 1, Len(cookie))))

(* A bug: only undefined and null count as no header. *)
Truthy_OnlyNullish(s) == s # undefined /\ s # null

(* if (cookies): undefined, null and the empty string are falsy. *)
Truthy(s) == s # undefined /\ s # null /\ s # <<>>

(* parseCookies(cookies) *)
parseCookies(cookies) ==
    IF Truthy(cookies) THEN ParseTokens(Split(cookies, <<chSemi, chSpace>>), <<>>) ELSE <<>>

(* setCookie(name, value, options) of the codec *)
setCookie(name, value, attributes) ==
    IF assertValidCookieNameThrows(name) THEN SyntaxError("Invalid cookie name")
    ELSE IF ~ValueRegexTest(value) THEN SyntaxError("Invalid cookie value")
    ELSE Return(name \o <<chEq>> \o value \o AttributesOrDefault(attributes))

(* deleteCookie(name) of the codec *)
deleteCookie(name) ==
    IF assertValidCookieNameThrows(name) THEN SyntaxError("Invalid cookie name")
    ELSE Return(name \o <<chEq>> \o DeleteAttributes)

----------------------------------------------------------------------------
(* The platform functions src/src/typed.ts calls. *)

IsHighSurrogate(c) == c >= 55296 /\ c <= 56319

IsLowSurrogate(c) == c >= 56320 /\ c <= 57343

(* U+FFFD as UTF-8. *)
ReplacementBytes == <<239, 191, 189>>

Utf8Bytes(cp) ==
    IF cp < 128 THEN <<cp>>
    ELSE IF cp < 2048 THEN <<192 + (cp \div 64), 128 + (cp % 64)>>
    ELSE IF cp < 65536 THEN <<224 + (cp \div 4096), 128 + ((cp \div 64) % 64), 128 + (cp % 64)>>
    ELSE <<240 + (cp \div 262144), 128 + ((cp \div 4096) % 64),
           128 + ((cp \div 64) % 64), 128 + (cp % 64)>>

(* TextEncoder.prototype.encode: a surrogate pair is one code point, a lone *)
(* surrogate is replaced by U+FFFD.                                         *)
RECURSIVE Utf8Encode(_)
Utf8Encode(s) ==
    IF s = <<>> THEN <<>>
    ELSE LET c == Head(s)
         IN  IF IsHighSurrogate(c) /\ Len(s) >= 2 /\ IsLowSurrogate(s[2])
             THEN Utf8Bytes(65536 + (c - 55296) * 1024 + (s[2] - 56320))
                      \o Utf8Encode(Tail(Tail(s)))
             ELSE IF IsHighSurrogate(c) \/ IsLowSurrogate(c)
             THEN ReplacementBytes \o Utf8Encode(Tail(s))
             ELSE Utf8Bytes(c) \o Utf8Encode(Tail(s))

IsContinuation(b, lo, hi) == b >= lo /\ b <= hi

CodeUnits(cp) ==
    IF cp < 65536 THEN <<cp>>
    ELSE <<55296 + ((cp - 65536) \div 1024), 56320 + ((cp - 65536) % 1024)>>

(* The UTF-8 decoder of a TextDecoder that is not fatal: an ill-formed      *)
(* sequence becomes U+FFFD and decoding resumes after its maximal subpart.  *)
RECURSIVE Utf8DecodeBytes(_)
Utf8DecodeBytes(b) ==
    IF b = <<>> THEN <<>>
    ELSE LET b1 == b[1]
             n == Len(b)
             lo2 == IF b1 = 224 THEN 160 ELSE IF b1 = 240 THEN 144 ELSE 128
             hi2 == IF b1 = 237 THEN 159 ELSE IF b1 = 244 THEN 143 ELSE 191
             need == IF b1 >= 194 /\ b1 <= 223 THEN 1
                     ELSE IF b1 >= 224 /\ b1 <= 239 THEN 2
                     ELSE IF b1 >= 240 /\ b1 <= 244 THEN 3
                     ELSE 0
             ok2 == n >= 2 /\ IsContinuation(b[2], lo2, hi2)
             ok3 == ok2 /\ n >= 3 /\ IsContinuation(b[3], 128, 191)
             ok4 == ok3 /\ n >= 4 /\ IsContinuation(b[4], 128, 191)
             rest(k) == Utf8DecodeBytes(SubSeq(b, k + 1, n))
         IN  IF b1 < 128 THEN <<b1>> \o rest(1)
             ELSE IF need = 0 THEN <<65533>> \o rest(1)
             ELSE IF need = 1
             THEN IF ok2 THEN <<(b1 - 192) * 64 + (b[2] - 128)>> \o rest(2)
                  ELSE <<65533>> \o rest(1)
             ELSE IF need = 2
             THEN IF ok3
                  THEN <<(b1 - 224) * 4096 + (b[2] - 128) * 64 + (b[3] - 128)>> \o rest(3)
                  ELSE <<65533>> \o rest(IF ok2 THEN 2 ELSE 1)
             ELSE IF ok4
                  THEN CodeUnits((b1 - 240) * 262144 + (b[2] - 128) * 4096
                                 + (b[3] - 128) * 64 + (b[4] - 128)) \o rest(4)
                  ELSE <<65533>> \o rest(IF ok3 THEN 3 ELSE IF ok2 THEN 2 ELSE 1)

(* TextDecoder.prototype.decode with ignoreBOM unset: a byte-order mark at   *)
(* the start of the input is not part of the output.                        *)
Utf8Decode(b) ==
    IF Len(b) >= 3 /\ SubSeq(b, 1, 3) = <<239, 187, 191>>
    THEN Utf8DecodeBytes(SubSeq(b, 4, Len(b)))
    ELSE Utf8DecodeBytes(b)

(* The base64 alphabet: A-Z a-z 0-9 + / *)
Base64Char(i) ==
    IF i < 26 THEN 65 + i
    ELSE IF i < 52 THEN 97 + (i - 26)
    ELSE IF i < 62 THEN 48 + (i - 52)
    ELSE IF i = 62 THEN chPlus
    ELSE chSlash

IsBase64Char(c) ==
    \/ c >= 65 /\ c <= 90
    \/ c >= 97 /\ c <= 122
    \/ c >= 48 /\ c <= 57
    \/ c = chPlus
    \/ c = chSlash

Base64Index(c) ==
    IF c >= 65 /\ c <= 90 THEN c - 65
    ELSE IF c >= 97 /\ c <= 122 THEN c - 97 + 26
    ELSE IF c >= 48 /\ c <= 57 THEN c - 48 + 52
    ELSE IF c = chPlus THEN 62
    ELSE 63

(* btoa of a string of bytes. *)
RECURSIVE btoa(_)
btoa(b) ==
    IF b = <<>> THEN <<>>
    ELSE IF Len(b) = 1
    THEN <<Base64Char(b[1] \div 4), Base64Char((b[1] % 4) * 16), chEq, chEq>>
    ELSE IF Len(b) = 2
    THEN <<Base64Char(b[1] \div 4), Base64Char((b[1] % 4) * 16 + (b[2] \div 16)),
           Base64Char((b[2] % 16) * 4), chEq>>
    ELSE <<Base64Char(b[1] \div 4), Base64Char((b[1] % 4) * 16 + (b[2] \div 16)),
           Base64Char((b[2] % 16) * 4 + (b[3] \div 64)), Base64Char(b[3] % 64)>>
             \o btoa(SubSeq(b, 4, Len(b)))

IsAsciiWhitespace(c) == c \in {9, 10, 12, 13, chSpace}

RECURSIVE StripAsciiWhitespace(_)
StripAsciiWhitespace(s) ==
    IF s = <<>> THEN <<>>
    ELSE IF IsAsciiWhitespace(Head(s)) THEN StripAsciiWhitespace(Tail(s))
    ELSE <<Head(s)>> \o StripAsciiWhitespace(Tail(s))

RECURSIVE Base64Sextets(_)
Base64Sextets(d) ==
    IF Len(d) >= 4
    THEN <<Base64Index(d[1]) * 4 + (Base64Index(d[2]) \div 16),
           (Base64Index(d[2]) % 16) * 16 + (Base64Index(d[3]) \div 4),
           (Base64Index(d[3]) % 4) * 64 + Base64Index(d[4])>>
             \o Base64Sextets(SubSeq(d, 5, Len(d)))
    ELSE IF Len(d) = 3
    THEN <<Base64Index(d[1]) * 4 + (Base64Index(d[2]) \div 16),
           (Base64Index(d[2]) % 16) * 16 + (Base64Index(d[3]) \div 4)>>
    ELSE IF Len(d) = 2
    THEN <<Base64Index(d[1]) * 4 + (Base64Index(d[2]) \div 16)>>
    ELSE <<>>

(* atob, the forgiving base64 decode: ASCII whitespace is removed, one or    *)
(* two padding characters are removed from a length that is a multiple of  *)
(* four, and a remaining length of 1 modulo 4 or a character outside the   *)
(* alphabet is an error.                                                    *)
atob(s) ==
    LET w == StripAsciiWhitespace(s)
        n == Len(w)
        d == IF n > 0 /\ n % 4 = 0 /\ w[n] = chEq
             THEN IF w[n - 1] = chEq THEN SubSeq(w, 1, n - 2) ELSE SubSeq(w, 1, n - 1)
             ELSE w
    IN  IF Len(d) % 4 = 1 \/ \E i \in 1..Len(d) : ~IsBase64Char(d[i])
        THEN [ok |-> FALSE, value |-> <<>>]
        ELSE [ok |-> TRUE, value |-> Base64Sextets(d)]

(* String.prototype.replaceAll for one-character patterns. *)
RECURSIVE replaceAll(_, _, _)
replaceAll(s, c, with) ==
    IF s = <<>> THEN <<>>
    ELSE (IF Head(s) = c THEN with ELSE <<Head(s)>>) \o replaceAll(Tail(s), c, with)

----------------------------------------------------------------------------
(* src/src/typed.ts *)

encodeString(string) ==
    replaceAll(replaceAll(replaceAll(btoa(Utf8Encode(string)), chEq, <<>>),
                          chPlus, <<chMinus>>),
               chSlash, <<chUnderscore>>)

(* decodeString: [ok |-> FALSE] when atob throws. *)
decodeString(string) ==
    LET decoded == atob(replaceAll(replaceAll(string, chMinus, <<chPlus>>),
                                   chUnderscore, <<chSlash>>))
    IN  IF decoded.ok THEN [ok |-> TRUE, value |-> Utf8Decode(decoded.value)]
        ELSE [ok |-> FALSE, value |-> <<>>]

----------------------------------------------------------------------------
(* JSON values: null, booleans, naturals, strings, the empty array and the *)
(* empty object; JUndefined is JavaScript's undefined.                      *)

JValue(t, n, s) == [t |-> t, n |-> n, s |-> s]

JUndefined == JValue("undefined", 0, <<>>)
JNull == JValue("null", 0, <<>>)
JTrue == JValue("true", 0, <<>>)
JFalse == JValue("false", 0, <<>>)
JNumber(n) == JValue("number", n, <<>>)
JString(s) == JValue("string", 0, s)
JEmptyArray == JValue("array", 0, <<>>)
JEmptyObject == JValue("object", 0, <<>>)

IsDigit(c) == c >= 48 /\ c <= 57

RECURSIVE Digits(_)
Digits(n) == IF n < 10 THEN <<48 + n>> ELSE Digits(n \div 10) \o <<48 + (n % 10)>>

HexDigit(h) == IF h < 10 THEN 48 + h ELSE 97 + (h - 10)

(* \uXXXX *)
UnicodeEscape(c) ==
    <<chBackslash, 117, HexDigit(c \div 4096), HexDigit((c \div 256) % 16),
      HexDigit((c \div 16) % 16), HexDigit(c % 16)>>

(* QuoteJSONString: the body between the quotes. *)
RECURSIVE QuoteBody(_)
QuoteBody(s) ==
    IF s = <<>> THEN <<>>
    ELSE LET c == Head(s)
         IN  IF IsHighSurrogate(c) /\ Len(s) >= 2 /\ IsLowSurrogate(s[2])
             THEN <<c, s[2]>> \o QuoteBody(Tail(Tail(s)))
             ELSE (IF c = chQuote THEN <<chBackslash, chQuote>>
                   ELSE IF c = chBackslash THEN <<chBackslash, chBackslash>>
                   ELSE IF c = 8 THEN <<chBackslash, 98>>
                   ELSE IF c = 9 THEN <<chBackslash, 116>>
                   ELSE IF c = 10 THEN <<chBackslash, 110>>
                   ELSE IF c = 12 THEN <<chBackslash, 102>>
                   ELSE IF c = 13 THEN <<chBackslash, 114>>
                   ELSE IF c < 32 \/ IsHighSurrogate(c) \/ IsLowSurrogate(c)
                   THEN UnicodeEscape(c)
                   ELSE <<c>>) \o QuoteBody(Tail(s))

(* JSON.stringify of a JSON value. *)
JSONstringify(v) ==
    IF v.t = "null" THEN <<110, 117, 108, 108>>
    ELSE IF v.t = "true" THEN <<116, 114, 117, 101>>
    ELSE IF v.t = "false" THEN <<102, 97, 108, 115, 101>>
    ELSE IF v.t = "number" THEN Digits(v.n)
    ELSE IF v.t = "string" THEN <<chQuote>> \o QuoteBody(v.s) \o <<chQuote>>
    ELSE IF v.t = "array" THEN <<chLBracket, chRBracket>>
    ELSE <<123, 125>>

IsJsonWhitespace(c) == c \in {9, 10, 13, chSpace}

RECURSIVE TrimLeft(_)
TrimLeft(s) == IF s # <<>> /\ IsJsonWhitespace(Head(s)) THEN TrimLeft(Tail(s)) ELSE s

RECURSIVE TrimRight(_)
TrimRight(s) ==
    IF s # <<>> /\ IsJsonWhitespace(s[Len(s)]) THEN TrimRight(SubSeq(s, 1, Len(s) - 1)) ELSE s

RECURSIVE DigitsValue(_)
DigitsValue(s) ==
    IF s = <<>> THEN 0 ELSE DigitsValue(SubSeq(s, 1, Len(s) - 1)) * 10 + (s[Len(s)] - 48)

IsHexDigit(c) == IsDigit(c) \/ (c >= 97 /\ c <= 102) \/ (c >= 65 /\ c <= 70)

HexValue(c) == IF IsDigit(c) THEN c - 48 ELSE IF c >= 97 THEN c - 97 + 10 ELSE c - 65 + 10

(* The characters of a JSON string body, [ok |-> FALSE] when it is          *)
(* ill-formed: a raw quote or control character, or a bad escape.          *)
RECURSIVE UnquoteBody(_)
UnquoteBody(s) ==
    IF s = <<>> THEN [ok |-> TRUE, value |-> <<>>]
    ELSE LET c == Head(s)
             n == Len(s)
             then(unit, k) ==
                 LET rest == UnquoteBody(SubSeq(s, k + 1, n))
                 IN  IF rest.ok THEN [ok |-> TRUE, value |-> <<unit>> \o rest.value] ELSE rest
             bad == [ok |-> FALSE, value |-> <<>>]
         IN  IF c = chQuote \/ c < 32 THEN bad
             ELSE IF c # chBackslash THEN then(c, 1)
             ELSE IF n < 2 THEN bad
             ELSE IF s[2] \in {chQuote, chBackslash, chSlash} THEN then(s[2], 2)
             ELSE IF s[2] = 98 THEN then(8, 2)
             ELSE IF s[2] = 102 THEN then(12, 2)
             ELSE IF s[2] = 110 THEN then(10, 2)
             ELSE IF s[2] = 114 THEN then(13, 2)
             ELSE IF s[2] = 116 THEN then(9, 2)
             ELSE IF s[2] = 117 /\ n >= 6 /\ \A i \in 3..6 : IsHexDigit(s[i])
             THEN then(HexValue(s[3]) * 4096 + HexValue(s[4]) * 256
                       + HexValue(s[5]) * 16 + HexValue(s[6]), 6)
             ELSE bad

(* JSON.parse on the texts of the values above: [ok |-> FALSE] when it      *)
(* throws a SyntaxError.                                                    *)
JSONparse(text) ==
    LET t == TrimRight(TrimLeft(text))
        n == Len(t)
        failure == [ok |-> FALSE, value |-> JUndefined]
        success(v) == [ok |-> TRUE, value |-> v]
    IN  IF t = <<110, 117, 108, 108>> THEN success(JNull)
        ELSE IF t = <<116, 114, 117, 101>> THEN success(JTrue)
        ELSE IF t = <<102, 97, 108, 115, 101>> THEN success(JFalse)
        ELSE IF n >= 1 /\ (\A i \in 1..n : IsDigit(t[i])) /\ (n = 1 \/ t[1] # 48)
        THEN success(JNumber(DigitsValue(t)))
        ELSE IF n >= 2 /\ t[1] = chQuote /\ t[n] = chQuote
        THEN LET body == UnquoteBody(SubSeq(t, 2, n - 1))
             IN  IF body.ok THEN success(JString(body.value)) ELSE failure
        ELSE IF n >= 2 /\ t[1] = chLBracket /\ t[n] = chRBracket
                  /\ TrimLeft(SubSeq(t, 2, n - 1)) = <<>>
        THEN success(JEmptyArray)
        ELSE IF n >= 2 /\ t[1] = 123 /\ t[n] = 125 /\ TrimLeft(SubSeq(t, 2, n - 1)) = <<>>
        THEN success(JEmptyObject)
        ELSE failure

----------------------------------------------------------------------------
(* The validation contracts a descriptor is given: "any" accepts every      *)
(* input unchanged, "string" accepts strings, "default" replaces undefined  *)
(* by 0 and accepts every other input, "async" answers with a promise.     *)

Schemas == {"any", "string", "default", "async"}

Validate(schema, input) ==
    IF schema = "async" THEN [kind |-> "promise", value |-> input]
    ELSE IF schema = "string" /\ input.t # "string" THEN [kind |-> "issues", value |-> input]
    ELSE IF schema = "default" /\ input = JUndefined THEN [kind |-> "value", value |-> JNumber(0)]
    ELSE [kind |-> "value", value |-> input]

----------------------------------------------------------------------------
(* src/src/typed.ts, the exported functions *)

CookieKey(options) == IF options.rawName THEN options.name ELSE encodeString(options.name)

(* tryCatch(() => JSON.parse(rawValue ? cookie : decodeString(cookie))): a   *)
(* throw of atob or of JSON.parse yields undefined.                         *)
TryParse(options, cookie) ==
    LET text == IF options.rawValue THEN [ok |-> TRUE, value |-> cookie]
                ELSE decodeString(cookie)
    IN  IF ~text.ok THEN JUndefined
        ELSE IF JSONparse(text.value).ok THEN JSONparse(text.value).value
        ELSE JUndefined

TypeErrorEntry == [error |-> "TypeError", message |-> "Schema validation must be synchronous"]

SchemaErrorEntry(issues) == [error |-> "SchemaError", message |-> issues]

Throw(error, message) == [kind |-> "throw", error |-> error, message |-> message]

(* A bug: a stored value that does not parse is treated as a missing key. *)
getCookie_GarbledIsAbsent(cookies, options) ==
    LET cookie == MapGet(cookies, CookieKey(options))
        input == TryParse(options, cookie)
        result == Validate(options.schema, input)
    IN  IF Truthy(cookie) /\ input # JUndefined
        THEN IF result.kind = "promise"
             THEN [ret |-> Return(JUndefined), log |-> <<TypeErrorEntry>>,
                   validated |-> <<input>>]
             ELSE IF result.kind = "issues"
             THEN [ret |-> Return(JUndefined), log |-> <<SchemaErrorEntry(result.value)>>,
                   validated |-> <<input>>]
             ELSE [ret |-> Return(result.value), log |-> <<>>, validated |-> <<input>>]
        ELSE [ret |-> Return(JUndefined), log |-> <<>>, validated |-> <<>>]

(* A bug: issues are swallowed without a log entry. *)
getCookie_SilentOnIssues(cookies, options) ==
    LET cookie == MapGet(cookies, CookieKey(options))
    IN  IF Truthy(cookie)
        THEN LET input == TryParse(options, cookie)
                 result == Validate(options.schema, input)
             IN  IF result.kind = "promise"
                 THEN [ret |-> Return(JUndefined), log |-> <<TypeErrorEntry>>,
                       validated |-> <<input>>]
                 ELSE IF result.kind = "issues"
                 THEN [ret |-> Return(JUndefined), log |-> <<>>, validated |-> <<input>>]
                 ELSE [ret |-> Return(result.value), log |-> <<>>, validated |-> <<input>>]
        ELSE [ret |-> Return(JUndefined), log |-> <<>>, validated |-> <<>>]

(* A bug: the promise is not recognised and its value field is returned. *)
getCookie_ReturnsFromPromise(cookies, options) ==
    LET cookie == MapGet(cookies, CookieKey(options))
    IN  IF Truthy(cookie)
        THEN LET input == TryParse(options, cookie)
                 result == Validate(options.schema, input)
             IN  IF result.kind = "issues"
                 THEN [ret |-> Return(JUndefined), log |-> <<SchemaErrorEntry(result.value)>>,
                       validated |-> <<input>>]
                 ELSE [ret |-> Return(result.value), log |-> <<>>, validated |-> <<input>>]
        ELSE [ret |-> Return(JUndefined), log |-> <<>>, validated |-> <<>>]

(* getCookie: the returned value, the console.error entries and the inputs  *)
(* handed to the contract's validate.                                       *)
getCookie(cookies, options) ==
    LET cookie == MapGet(cookies, CookieKey(options))
    IN  IF Truthy(cookie)
        THEN LET input == TryParse(options, cookie)
                 result == Validate(options.schema, input)
             IN  IF result.kind = "promise"
                 THEN [ret |-> Return(JUndefined), log |-> <<TypeErrorEntry>>,
                       validated |-> <<input>>]
                 ELSE IF result.kind = "issues"
                 THEN [ret |-> Return(JUndefined), log |-> <<SchemaErrorEntry(result.value)>>,
                       validated |-> <<input>>]
                 ELSE [ret |-> Return(result.value), log |-> <<>>, validated |-> <<input>>]
        ELSE [ret |-> Return(JUndefined), log |-> <<>>, validated |-> <<>>]

(* getCookie of src/unnamed/part_001, the variant that throws where the     *)
(* other logs.                                                              *)
strictGetCookie(cookies, options) ==
    LET cookie == MapGet(cookies, CookieKey(options))
    IN  IF Truthy(cookie)
        THEN LET input == TryParse(options, cookie)
                 result == Validate(options.schema, input)
             IN  IF result.kind = "promise"
                 THEN [ret |-> Throw("TypeError", "Schema validation must be synchronous"),
                       log |-> <<>>, validated |-> <<input>>]
                 ELSE IF result.kind = "issues"
                 THEN [ret |-> Throw("SchemaError", result.value),
                       log |-> <<>>, validated |-> <<input>>]
                 ELSE [ret |-> Return(result.value), log |-> <<>>, validated |-> <<input>>]
        ELSE [ret |-> Return(JUndefined), log |-> <<>>, validated |-> <<>>]

(* deleteCookie(options) *)
typedDeleteCookie(options) == deleteCookie(CookieKey(options))

(* A bug: undefined stores an empty value with the descriptor's attributes. *)
typedSetCookie_StoresEmpty(options, value) ==
    LET name == CookieKey(options)
        json == JSONstringify(value)
    IN  IF value = JUndefined THEN setCookie(name, <<>>, options.attributes)
        ELSE setCookie(name, IF options.rawValue THEN json ELSE encodeString(json),
                       options.attributes)

(* setCookie(options, value) *)
typedSetCookie(options, value) ==
    LET name == CookieKey(options)
    IN  IF value = JUndefined THEN deleteCookie(name)
        ELSE LET json == JSONstringify(value)
             IN  setCookie(name, IF options.rawValue THEN json ELSE encodeString(json),
                           options.attributes)

----------------------------------------------------------------------------
(* Inputs *)

(* Codec names over  a Z ( space = e-acute,  values over  a ; "  *)
CodecNames == StringsUpTo({97, 90, 40, chSpace, chEq, 233}, MaxNameLen)

CodecValues == StringsUpTo({97, chSemi, chQuote}, MaxValueLen)

(* Headers over  a = ; space *)
Headers == StringsUpTo({97, chEq, chSemi, chSpace}, MaxHeaderLen)

(* absent, ";" and ";a" *)
AttributeOptions == {undefined, <<chSemi>>, <<chSemi, 97>>}

(* Strings to encode over  a  e-acute  U+FEFF  and the two halves of        *)
(* U+1F600: one, two, three and four bytes of UTF-8, and lone surrogates.   *)
(* Descriptor names are those without e-acute.                              *)
TypedStrings == StringsUpTo({97, 233, 65279, 55357, 56832}, MaxNameLen)

JsonValues ==
    {JNull, JTrue, JFalse, JNumber(0), JNumber(1), JNumber(10), JEmptyArray, JEmptyObject}
        \cup {JString(s) : s \in StringsUpTo({97, chQuote, 65279}, MaxStringLen)}

(* setCookie and deleteCookie of the typed wrapper never read the schema. *)
TypedNames == StringsUpTo({97, 65279, 55357, 56832}, MaxNameLen)

Descriptors ==
    [name : TypedNames, schema : {"any"}, attributes : AttributeOptions,
     rawName : BOOLEAN, rawValue : BOOLEAN]

GetNames == StringsUpTo({97}, MaxGetNameLen)

GetDescriptors ==
    [name : GetNames, schema : Schemas, attributes : {undefined},
     rawName : BOOLEAN, rawValue : BOOLEAN]

GetKeys == GetNames \cup {encodeString(n) : n \in GetNames}

(* Stored values: the empty string, JSON texts raw and encoded, "!" (not    *)
(* base64, not JSON) and "YQ" (base64 of "a", which is not JSON).           *)
StoredValues ==
    {<<>>, <<chBang>>, <<89, 81>>}
        \cup {JSONstringify(v) : v \in {JNull, JNumber(0), JString(<<97>>)}}
        \cup {encodeString(JSONstringify(v)) : v \in {JNull, JNumber(0), JString(<<97>>)}}

RECURSIVE MapsUpTo(_)
MapsUpTo(n) ==
    IF n = 0 THEN {<<>>}
    ELSE LET smaller == MapsUpTo(n - 1)
         IN  smaller \cup
             {Append(m, [key |-> k, value |-> v]) :
                 m \in {x \in smaller : Len(x) = n - 1}, k \in GetKeys, v \in StoredValues}

CookieMaps == {m \in MapsUpTo(MaxEntries) : \A i, j \in 1..Len(m) : m[i].key = m[j].key => i = j}

----------------------------------------------------------------------------
(* The state machine.  The functions are pure and share no state, so a     *)
(* behaviour is one call: Init draws the call and its arguments, and the   *)
(* action of the called function runs it to completion.                    *)

ParseCookiesCalls == [fn : {"parseCookies"}, cookies : Headers \cup {undefined, null}]

SetCookieCalls ==
    [fn : {"setCookie"}, name : CodecNames, value : CodecValues, attributes : AttributeOptions]

DeleteCookieCalls == [fn : {"deleteCookie"}, name : CodecNames]

EncodeStringCalls == [fn : {"encodeString"}, string : TypedStrings]

DecodeStringCalls ==
    [fn : {"decodeString"}, string : {encodeString(x) : x \in TypedStrings} \cup StoredValues]

GetCookieCalls == [fn : {"getCookie"}, cookies : CookieMaps, options : GetDescriptors]

StrictGetCookieCalls ==
    [fn : {"strictGetCookie"}, cookies : CookieMaps, options : GetDescriptors]

TypedSetCookieCalls ==
    [fn : {"typedSetCookie"}, options : Descriptors, value : JsonValues \cup {JUndefined}]

TypedDeleteCookieCalls == [fn : {"typedDeleteCookie"}, options : Descriptors]

Init ==
    /\ pc = "call"
    /\ ret = Return(undefined)
    /\ log = <<>>
    /\ validated = <<>>
    /\ \/ call \in ParseCookiesCalls
       \/ call \in SetCookieCalls
       \/ call \in DeleteCookieCalls
       \/ call \in EncodeStringCalls
       \/ call \in DecodeStringCalls
       \/ call \in GetCookieCalls
       \/ call \in StrictGetCookieCalls
       \/ call \in TypedSetCookieCalls
       \/ call \in TypedDeleteCookieCalls

ParseCookies ==
    /\ pc = "call"
    /\ call.fn = "parseCookies"
    /\ ret' = Return(parseCookies(call.cookies))
    /\ pc' = "done"
    /\ UNCHANGED <<call, log, validated>>

SetCookie ==
    /\ pc = "call"
    /\ call.fn = "setCookie"
    /\ ret' = setCookie(call.name, call.value, call.attributes)
    /\ pc' = "done"
    /\ UNCHANGED <<call, log, validated>>

DeleteCookie ==
    /\ pc = "call"
    /\ call.fn = "deleteCookie"
    /\ ret' = deleteCookie(call.name)
    /\ pc' = "done"
    /\ UNCHANGED <<call, log, validated>>

EncodeString ==
    /\ pc = "call"
    /\ call.fn = "encodeString"
    /\ ret' = Return(encodeString(call.string))
    /\ pc' = "done"
    /\ UNCHANGED <<call, log, validated>>

DecodeString ==
    /\ pc = "call"
    /\ call.fn = "decodeString"
    /\ ret' = IF decodeString(call.string).ok
              THEN Return(decodeString(call.string).value)
              ELSE [kind |-> "throw", error |-> "InvalidCharacterError", message |-> "atob"]
    /\ pc' = "done"
    /\ UNCHANGED <<call, log, validated>>

GetCookie ==
    /\ pc = "call"
    /\ call.fn = "getCookie"
    /\ LET out == getCookie(call.cookies, call.options)
       IN  /\ ret' = out.ret
           /\ log' = log \o out.log
           /\ validated' = validated \o out.validated
    /\ pc' = "done"
    /\ UNCHANGED call

StrictGetCookie ==
    /\ pc = "call"
    /\ call.fn = "strictGetCookie"
    /\ LET out == strictGetCookie(call.cookies, call.options)
       IN  /\ ret' = out.ret
           /\ log' = log \o out.log
           /\ validated' = validated \o out.validated
    /\ pc' = "done"
    /\ UNCHANGED call

TypedSetCookie ==
    /\ pc = "call"
    /\ call.fn = "typedSetCookie"
    /\ ret' = typedSetCookie(call.options, call.value)
    /\ pc' = "done"
    /\ UNCHANGED <<call, log, validated>>

TypedDeleteCookie ==
    /\ pc = "call"
    /\ call.fn = "typedDeleteCookie"
    /\ ret' = typedDeleteCookie(call.options)
    /\ pc' = "done"
    /\ UNCHANGED <<call, log, validated>>

Next ==
    \/ ParseCookies
    \/ SetCookie
    \/ DeleteCookie
    \/ EncodeString
    \/ DecodeString
    \/ GetCookie
    \/ StrictGetCookie
    \/ TypedSetCookie
    \/ TypedDeleteCookie

Spec == Init /\ [][Next]_vars

----------------------------------------------------------------------------
(* The grammar the documentation states, written without the patterns of    *)
(* the code.                                                                *)

(* ( ) < > @ , ; : \ " / [ ] ? = { } *)
Separators == {40, 41, 60, 62, 64, 44, 59, 58, 92, 34, 47, 91, 93, 63, 61, 123, 125}

IsTokenChar(c) == c >= 33 /\ c <= 126 /\ c \notin Separators

IsCookieNameToken(name) == Len(name) >= 1 /\ \A i \in 1..Len(name) : IsTokenChar(name[i])

(* Printable ASCII other than space, double quote, comma, semicolon and backslash. *)
IsCookieOctet(c) == c >= 33 /\ c <= 126 /\ c \notin {34, 44, 59, 92}

IsBareValue(value) == \A i \in 1..Len(value) : IsCookieOctet(value[i])

IsCookieValue(value) ==
    \/ IsBareValue(value)
    \/ /\ Len(value) >= 2
       /\ value[1] = 34
       /\ value[Len(value)] = 34
       /\ IsBareValue(SubSeq(value, 2, Len(value) - 1))

Done(fn) == pc = "done" /\ call.fn = fn

InvalidCookieName == SyntaxError("Invalid cookie name")

InvalidCookieValue == SyntaxError("Invalid cookie value")

----------------------------------------------------------------------------
(* C1: the codec's setCookie, given a valid name, fails with                *)
(* InvalidCookieValue for every value that is neither a bare run of cookie  *)
(* octets nor such a run in one pair of double quotes.                      *)
C1_InvalidValueRejected ==
    (Done("setCookie") /\ IsCookieNameToken(call.name) /\ ~IsCookieValue(call.value))
        => ret = InvalidCookieValue

(* C2: the codec's setCookie and deleteCookie fail with InvalidCookieName   *)
(* exactly when the name is empty or holds a character outside the token   *)
(* set, and return a string for every other name.                           *)
C2_NameRejectedExactlyOutsideTokens ==
    /\ (Done("setCookie") \/ Done("deleteCookie"))
           => (ret = InvalidCookieName <=> ~IsCookieNameToken(call.name))
    /\ (Done("deleteCookie") /\ IsCookieNameToken(call.name)) => ret.kind = "return"
    /\ (Done("setCookie") /\ IsCookieNameToken(call.name) /\ IsCookieValue(call.value))
           => ret.kind = "return"

(* C3: for a valid name and a valid value the codec's setCookie returns     *)
(* name, "=", value and then the supplied attributes, or the default        *)
(* attributes when none are supplied; the typed setCookie hands over the    *)
(* descriptor's attributes.                                                 *)
SuppliedOrDefault(attributes) ==
    IF attributes = undefined
    THEN <<59, 109, 97, 120, 45, 97, 103, 101, 61, 51, 49, 53, 51, 54, 48, 48, 48,
           59, 112, 97, 116, 104, 61, 47,
           59, 115, 97, 109, 101, 83, 105, 116, 101, 61, 108, 97, 120>>
    ELSE attributes

C3_SetCookieOutput ==
    /\ (Done("setCookie") /\ IsCookieNameToken(call.name) /\ IsCookieValue(call.value))
           => ret = Return(call.name \o <<61>> \o call.value
                               \o SuppliedOrDefault(call.attributes))
    /\ (Done("typedSetCookie") /\ call.value # JUndefined /\ ret.kind = "return")
           => \E n \in 0..Len(ret.value) :
                  /\ SubSeq(ret.value, n + 1, Len(ret.value))
                         = SuppliedOrDefault(call.options.attributes)
                  /\ \A i \in 1..n : ret.value[i] # 59

C3_Witness ==
    /\ Done("setCookie")
    /\ call.name = <<97>>
    /\ call.value = <<97>>
    /\ call.attributes = <<59, 97>>
    /\ ret = Return(<<97, 61, 97, 59, 97>>)

C3_WitnessTyped ==
    /\ Done("typedSetCookie")
    /\ call.value = JNumber(0)
    /\ call.options.attributes = <<59, 97>>
    /\ ret.kind = "return"

(* C4: for a non-empty header, parseCookies holds one entry per distinct    *)
(* token name, in the order the names first appear; a token without "="     *)
(* has the empty name and is its own value, any other token is split at     *)
(* its first "="; each entry holds the value of the last token with its     *)
(* name.  The tokens are the pieces between the separators "; ".            *)
SeparatorStarts(header) ==
    {i \in 1..(Len(header) - 1) : header[i] = 59 /\ header[i + 1] = 32}

Kth(S, k) == CHOOSE i \in S : Cardinality({j \in S : j < i}) = k - 1

ReferenceTokens(header) ==
    LET S == SeparatorStarts(header)
        n == Cardinality(S) + 1
    IN  [k \in 1..n |->
            SubSeq(header,
                   IF k = 1 THEN 1 ELSE Kth(S, k - 1) + 2,
                   IF k = n THEN Len(header) ELSE Kth(S, k) - 1)]

EqualsSigns(token) == {i \in 1..Len(token) : token[i] = 61}

FirstEquals(token) == CHOOSE i \in EqualsSigns(token) : \A j \in EqualsSigns(token) : i <= j

TokenName(token) ==
    IF EqualsSigns(token) = {} THEN <<>> ELSE SubSeq(token, 1, FirstEquals(token) - 1)

TokenValue(token) ==
    IF EqualsSigns(token) = {} THEN token
    ELSE SubSeq(token, FirstEquals(token) + 1, Len(token))

Occurrences(tokens, name) == {j \in 1..Len(tokens) : TokenName(tokens[j]) = name}

Least(S) == CHOOSE i \in S : \A j \in S : i <= j

Greatest(S) == CHOOSE i \in S : \A j \in S : i >= j

IsReferenceParse(tokens, m) ==
    /\ \A i, j \in 1..Len(m) : m[i].key = m[j].key => i = j
    /\ {m[i].key : i \in 1..Len(m)} = {TokenName(tokens[j]) : j \in 1..Len(tokens)}
    /\ \A i \in 1..Len(m) :
           m[i].value = TokenValue(tokens[Greatest(Occurrences(tokens, m[i].key))])
    /\ \A i, j \in 1..Len(m) :
           i < j => Least(Occurrences(tokens, m[i].key)) < Least(Occurrences(tokens, m[j].key))

C4_ParseMatchesReference ==
    (Done("parseCookies") /\ call.cookies \notin {undefined, null, <<>>})
        => /\ ret.kind = "return"
           /\ IsReferenceParse(ReferenceTokens(call.cookies), ret.value)

(* a=; a=a : the second token replaces the value of the first. *)
C4_Witness ==
    /\ Done("parseCookies")
    /\ call.cookies = <<97, 61, 59, 32, 97, 61, 97>>
    /\ ret.value = <<[key |-> <<97>>, value |-> <<97>>]>>

(* C5 as stated: parseCookies never raises, yields the empty mapping for an *)
(* absent header, and for the empty string yields the one entry "" -> "".   *)
C5_EmptyStringIsOneToken ==
    Done("parseCookies")
        => /\ ret.kind = "return"
           /\ call.cookies \in {undefined, null} => ret.value = <<>>
           /\ call.cookies = <<>> => ret.value = <<[key |-> <<>>, value |-> <<>>]>>

(* C5 as amended: parseCookies never raises and yields the empty mapping    *)
(* for an absent header and for the empty string alike.                     *)
C5_EmptyStringIsAbsent ==
    Done("parseCookies")
        => /\ ret.kind = "return"
           /\ call.cookies \in {undefined, null, <<>>} => ret.value = <<>>
           /\ call.cookies \notin {undefined, null, <<>>} => Len(ret.value) >= 1

C5_Witness == Done("parseCookies") /\ call.cookies = <<>> /\ ret = Return(<<>>)

----------------------------------------------------------------------------
(* A string is well formed when every surrogate is half of a pair. *)
RECURSIVE IsWellFormed(_)
IsWellFormed(x) ==
    IF x = <<>> THEN TRUE
    ELSE IF x[1] >= 55296 /\ x[1] <= 56319
    THEN Len(x) >= 2 /\ x[2] >= 56320 /\ x[2] <= 57343 /\ IsWellFormed(Tail(Tail(x)))
    ELSE ~(x[1] >= 56320 /\ x[1] <= 57343) /\ IsWellFormed(Tail(x))

(* C6: decodeString gives back every well-formed string x from              *)
(* encodeString(x), the empty string and strings that start with U+FEFF     *)
(* included.                                                                *)
C6_DecodeInvertsEncode ==
    Done("decodeString")
        => \A x \in TypedStrings :
               (IsWellFormed(x) /\ call.string = encodeString(x)) => ret = Return(x)

(* C7: encodeString(x) passes the codec's name check and its value check    *)
(* for every string x, so with rawName unset the typed setCookie and        *)
(* deleteCookie never fail with InvalidCookieName, and with rawValue unset  *)
(* the typed setCookie never fails with InvalidCookieValue.                 *)
C7_EncodedStringIsCookieSafe ==
    /\ Done("encodeString")
           => /\ ~assertValidCookieNameThrows(ret.value)
              /\ ValueRegexTest(ret.value)
              /\ \A i \in 1..Len(ret.value) :
                     \/ ret.value[i] \in (48..57) \cup (65..90) \cup (97..122)
                     \/ ret.value[i] \in {45, 95}
    /\ ((Done("typedSetCookie") \/ Done("typedDeleteCookie")) /\ ~call.options.rawName)
           => ret # InvalidCookieName
    /\ (Done("typedSetCookie") /\ ~call.options.rawValue) => ret # InvalidCookieValue

(* The text of a Set-Cookie string before its first ";". *)
BeforeFirstSemicolon(s) ==
    LET semis == {i \in 1..Len(s) : s[i] = 59}
    IN  IF semis = {} THEN s ELSE SubSeq(s, 1, Least(semis) - 1)

(* Other cookies of a header: b=1 and a nameless x. *)
OtherCookies == {<<98, 61, 49>>, <<120>>}

HeadersHolding(p) ==
    {p} \cup {p \o <<59, 32>> \o o : o \in OtherCookies}
        \cup {o \o <<59, 32>> \o p : o \in OtherCookies}

(* C8: with rawName and rawValue unset, for every name and every JSON value *)
(* v that the schema accepts unchanged, getCookie reads v back from the     *)
(* name=value part of what the typed setCookie returned, alone in a header  *)
(* or among other cookies.                                                  *)
C8_SetThenGetRoundTrip ==
    (/\ Done("typedSetCookie")
     /\ ~call.options.rawName
     /\ ~call.options.rawValue
     /\ call.value # JUndefined)
        => /\ ret.kind = "return"
           /\ \A schema \in Schemas :
                  Validate(schema, call.value) = [kind |-> "value", value |-> call.value]
                      => \A header \in HeadersHolding(BeforeFirstSemicolon(ret.value)) :
                             getCookie(parseCookies(header),
                                       [call.options EXCEPT !.schema = schema]).ret
                                 = Return(call.value)

(* ";max-age=0;path=/;sameSite=lax" after the "=" *)
Deletion(key) ==
    key \o <<61, 59, 109, 97, 120, 45, 97, 103, 101, 61, 48,
             59, 112, 97, 116, 104, 61, 47,
             59, 115, 97, 109, 101, 83, 105, 116, 101, 61, 108, 97, 120>>

DeletionOutcome(options) ==
    LET key == IF options.rawName THEN options.name ELSE encodeString(options.name)
    IN  IF assertValidCookieNameThrows(key) THEN InvalidCookieName ELSE Return(Deletion(key))

(* C9: the typed setCookie(descriptor, undefined) and the typed             *)
(* deleteCookie(descriptor) have the same outcome: InvalidCookieName for    *)
(* the same descriptors, and otherwise the key followed by                  *)
(* "=;max-age=0;path=/;sameSite=lax", whatever the descriptor's attributes  *)
(* and rawValue are.                                                        *)
C9_SetUndefinedIsDelete ==
    /\ (Done("typedSetCookie") /\ call.value = JUndefined)
           => /\ ret = DeletionOutcome(call.options)
              /\ ret = typedDeleteCookie(call.options)
              /\ \A a \in AttributeOptions, r \in BOOLEAN :
                     typedDeleteCookie([call.options EXCEPT !.attributes = a, !.rawValue = r])
                         = ret
    /\ Done("typedDeleteCookie")
           => /\ ret = DeletionOutcome(call.options)
              /\ ret = typedSetCookie(call.options, JUndefined)
              /\ \A a \in AttributeOptions, r \in BOOLEAN :
                     typedSetCookie([call.options EXCEPT !.attributes = a, !.rawValue = r],
                                    JUndefined)
                         = ret

(* setCookie(descriptor, undefined) with attributes ";a" and rawValue set. *)
C9_Witness ==
    /\ Done("typedSetCookie")
    /\ call.value = JUndefined
    /\ call.options.attributes = <<59, 97>>
    /\ call.options.rawValue
    /\ call.options.name = <<97>>
    /\ ~call.options.rawName
    /\ ret = Return(Deletion(<<89, 81>>))

(* C10: getCookie on a mapping without the lookup key returns undefined,    *)
(* validates nothing and logs nothing; a cookie stored under the raw name   *)
(* is not found by a descriptor with rawName unset, and a cookie stored     *)
(* under the encoded name is not found by a descriptor with rawName set.    *)
NotFound == ret = Return(JUndefined) /\ validated = <<>> /\ log = <<>>

C10_MissingKeyIsAbsent ==
    Done("getCookie")
        => LET key == IF call.options.rawName THEN call.options.name
                      ELSE encodeString(call.options.name)
               stored == {call.cookies[i].key : i \in 1..Len(call.cookies)}
           IN  /\ key \notin stored => NotFound
               /\ (~call.options.rawName /\ stored = {call.options.name}) => NotFound
               /\ (call.options.rawName /\ stored = {encodeString(call.options.name)})
                      => NotFound

----------------------------------------------------------------------------
(* The stored value under the descriptor's key, undefined when the key is   *)
(* missing.                                                                 *)
LookupKey == IF call.options.rawName THEN call.options.name
             ELSE encodeString(call.options.name)

KeyPresent == \E i \in 1..Len(call.cookies) : call.cookies[i].key = LookupKey

StoredValue == call.cookies[CHOOSE i \in 1..Len(call.cookies) : call.cookies[i].key = LookupKey].value

(* The JSON values whose texts the stored values of the model hold. *)
StoredJsonValues == {JNull, JNumber(0), JString(<<97>>)}

(* What the stored value means under the descriptor: a value of             *)
(* StoredJsonValues when it is the text of one (encoded unless rawValue is  *)
(* set), undefined when it is garbled.                                      *)
Meaning ==
    LET texts == {v \in StoredJsonValues :
                     StoredValue = IF call.options.rawValue THEN JSONstringify(v)
                                   ELSE encodeString(JSONstringify(v))}
    IN  IF texts = {} THEN JUndefined ELSE CHOOSE v \in texts : TRUE

Garbled == KeyPresent /\ Meaning = JUndefined

(* C11 as stated: when the stored value cannot be decoded or parsed,        *)
(* getCookie returns absent, as for a missing key, whatever the schema.     *)
C11_GarbledIsAbsent ==
    (Done("getCookie") /\ Garbled) => ret = Return(JUndefined)

(* C11 as amended: the failure never leaves getCookie; a garbled value that *)
(* is not empty reaches validate as undefined and the schema decides: the   *)
(* schema that accepts undefined gives undefined, the schema with a default *)
(* gives its default 0, the string schema's issues and the promise give     *)
(* absent with one log entry; the empty stored value is treated as a        *)
(* missing key.                                                             *)
C11_GarbledIsValidatedAsUndefined ==
    (Done("getCookie") /\ Garbled)
        => /\ ret.kind = "return"
           /\ StoredValue = <<>> => NotFound
           /\ StoredValue # <<>>
                  => /\ validated = <<JUndefined>>
                     /\ call.options.schema = "any"
                            => ret = Return(JUndefined) /\ log = <<>>
                     /\ call.options.schema = "default"
                            => ret = Return(JNumber(0)) /\ log = <<>>
                     /\ call.options.schema = "string"
                            => /\ ret = Return(JUndefined)
                               /\ Len(log) = 1
                               /\ log[1].error = "SchemaError"
                     /\ call.options.schema = "async"
                            => /\ ret = Return(JUndefined)
                               /\ Len(log) = 1
                               /\ log[1].error = "TypeError"

(* "!" under the key YQ, read with the default schema: the default comes back. *)
C11_Witness ==
    /\ Done("getCookie")
    /\ call.cookies = <<[key |-> <<89, 81>>, value |-> <<33>>]>>
    /\ call.options.name = <<97>>
    /\ ~call.options.rawName
    /\ ~call.options.rawValue
    /\ call.options.schema = "default"
    /\ validated = <<JUndefined>>
    /\ ret = Return(JNumber(0))

(* The contract's answer has issues: the string schema was handed a value   *)
(* that is not a string (a stored null or 0, or a garbled value).           *)
IssuesCase ==
    /\ KeyPresent
    /\ StoredValue # <<>>
    /\ call.options.schema = "string"
    /\ Meaning.t # "string"

(* C12: when validate answers with issues, getCookie returns no value and   *)
(* does not stay silent: the variant of src/src/typed.ts writes exactly one *)
(* error-log entry, a SchemaError built from the issues, and returns absent *)
(* without raising; the strict variant raises that SchemaError.             *)
C12_IssuesAreLoggedOrRaised ==
    /\ (Done("getCookie") /\ IssuesCase)
           => /\ ret = Return(JUndefined)
              /\ log = <<[error |-> "SchemaError", message |-> Meaning]>>
              /\ validated = <<Meaning>>
    /\ (Done("strictGetCookie") /\ IssuesCase)
           => /\ ret = [kind |-> "throw", error |-> "SchemaError", message |-> Meaning]
              /\ log = <<>>
              /\ validated = <<Meaning>>

(* The encoded text of 0 under the key YQ, read with the string schema. *)
C12_Witness ==
    /\ Done("getCookie")
    /\ call.cookies = <<[key |-> <<89, 81>>, value |-> <<77, 65>>]>>
    /\ call.options.name = <<97>>
    /\ ~call.options.rawName
    /\ ~call.options.rawValue
    /\ call.options.schema = "string"
    /\ ret = Return(JUndefined)
    /\ log = <<[error |-> "SchemaError", message |-> JNumber(0)]>>

C12_WitnessStrict ==
    /\ Done("strictGetCookie")
    /\ call.cookies = <<[key |-> <<89, 81>>, value |-> <<77, 65>>]>>
    /\ call.options.name = <<97>>
    /\ ~call.options.rawName
    /\ ~call.options.rawValue
    /\ call.options.schema = "string"
    /\ ret = [kind |-> "throw", error |-> "SchemaError", message |-> JNumber(0)]

(* validate answers with a promise: the key is present, its value is not    *)
(* empty, and the schema is the asynchronous one.                           *)
DeferredCase ==
    /\ KeyPresent
    /\ StoredValue # <<>>
    /\ call.options.schema = "async"

AsyncValidationNotSupported ==
    [kind |-> "throw", error |-> "TypeError",
     message |-> "Schema validation must be synchronous"]

(* C13 as stated: whenever validate answers with a promise, the call is     *)
(* rejected with the TypeError "Schema validation must be synchronous", in  *)
(* either variant of getCookie.                                             *)
C13_DeferredIsRejected ==
    ((Done("getCookie") \/ Done("strictGetCookie")) /\ DeferredCase)
        => ret = AsyncValidationNotSupported

(* C13 amended: when validate answers with a promise, getCookie completes   *)
(* in the same step, validates once and never returns a value taken from    *)
(* the promise. The strict variant raises the TypeError "Schema validation  *)
(* must be synchronous"; the variant of src/src/typed.ts does not raise: it *)
(* writes that TypeError as its one error-log entry and returns absent.     *)
C13_DeferredIsNeverAwaited ==
    /\ (Done("getCookie") /\ DeferredCase)
           => /\ ret = Return(JUndefined)
              /\ log = <<[error |-> "TypeError",
                          message |-> "Schema validation must be synchronous"]>>
              /\ validated = <<Meaning>>
    /\ (Done("strictGetCookie") /\ DeferredCase)
           => /\ ret = AsyncValidationNotSupported
              /\ log = <<>>
              /\ validated = <<Meaning>>

(* The encoded text of 0 under the key YQ, read with the asynchronous schema. *)
C13_Witness ==
    /\ Done("getCookie")
    /\ call.cookies = <<[key |-> <<89, 81>>, value |-> <<77, 65>>]>>
    /\ call.options.name = <<97>>
    /\ ~call.options.rawName
    /\ ~call.options.rawValue
    /\ call.options.schema = "async"
    /\ ret = Return(JUndefined)
    /\ Len(log) = 1
    /\ log[1].error = "TypeError"

C13_WitnessStrict ==
    /\ Done("strictGetCookie")
    /\ call.cookies = <<[key |-> <<89, 81>>, value |-> <<77, 65>>]>>
    /\ call.options.name = <<97>>
    /\ ~call.options.rawName
    /\ ~call.options.rawValue
    /\ call.options.schema = "async"
    /\ ret = AsyncValidationNotSupported

(* What the schema answers for the meaning of the stored text, and what     *)
(* getCookie returns when that answer decides the result.                   *)
Verdict == Validate(call.options.schema, Meaning)

DecidedByValidation ==
    IF Verdict.kind = "value" THEN ret = Return(Verdict.value) ELSE ret = Return(JUndefined)

(* C14: whenever the lookup key is present, whatever string is stored under *)
(* it (the empty string included), getCookie hands exactly one input to     *)
(* validate, the JSON value of the candidate text or undefined when that    *)
(* text does not parse, and its result is the one validation decides.       *)
C14_PresentKeyIsValidatedOnce ==
    (Done("getCookie") /\ KeyPresent)
        => /\ validated = <<Meaning>>
           /\ DecidedByValidation

----------------------------------------------------------------------------
(* How far the refuted claims hold. *)

(* decodeString inverts encodeString on the well-formed strings that do     *)
(* not start with U+FEFF.                                                   *)
RoundTripUnlessByteOrderMark ==
    Done("decodeString")
        => \A x \in TypedStrings :
               (/\ IsWellFormed(x)
                /\ (x = <<>> \/ x[1] # 65279)
                /\ call.string = encodeString(x)) => ret = Return(x)

(* The encoding of a non-empty string passes both checks of the codec. *)
EncodedNonEmptyStringIsCookieSafe ==
    /\ (Done("encodeString") /\ call.string # <<>>)
           => ~assertValidCookieNameThrows(ret.value) /\ ValueRegexTest(ret.value)
    /\ (/\ Done("typedSetCookie") \/ Done("typedDeleteCookie")
        /\ ~call.options.rawName
        /\ call.options.name # <<>>) => ret.kind = "return"

(* The round trip of C8 for the descriptors with a non-empty name. *)
RoundTripUnlessEmptyName ==
    (/\ Done("typedSetCookie")
     /\ ~call.options.rawName
     /\ ~call.options.rawValue
     /\ call.options.name # <<>>
     /\ call.value # JUndefined)
        => /\ ret.kind = "return"
           /\ \A schema \in Schemas :
                  Validate(schema, call.value) = [kind |-> "value", value |-> call.value]
                      => \A header \in HeadersHolding(BeforeFirstSemicolon(ret.value)) :
                             getCookie(parseCookies(header),
                                       [call.options EXCEPT !.schema = schema]).ret
                                 = Return(call.value)

(* C10 for the descriptors with a non-empty name. *)
MissingKeyIsAbsentUnlessEmptyName ==
    (Done("getCookie") /\ call.options.name # <<>>)
        => LET key == IF call.options.rawName THEN call.options.name
                      ELSE encodeString(call.options.name)
               stored == {call.cookies[i].key : i \in 1..Len(call.cookies)}
           IN  /\ key \notin stored => NotFound
               /\ (~call.options.rawName /\ stored = {call.options.name}) => NotFound
               /\ (call.options.rawName /\ stored = {encodeString(call.options.name)})
                      => NotFound

(* C14 holds for every stored value except the empty string, which         *)
(* getCookie treats as a missing key on line 62.                            *)
PresentKeyIsValidatedOnceUnlessEmpty ==
    (Done("getCookie") /\ KeyPresent)
        => IF StoredValue = <<>>
           THEN NotFound
           ELSE validated = <<Meaning>> /\ DecidedByValidation

(* The mapping of the header "YQ=" read with the default schema: the key is *)
(* present, nothing is validated and the default is not applied.            *)
EmptyStoredValueIsNotValidated ==
    /\ Done("getCookie")
    /\ call.cookies = <<[key |-> <<89, 81>>, value |-> <<>>]>>
    /\ call.options.name = <<97>>
    /\ ~call.options.rawName
    /\ call.options.schema = "default"
    /\ NotFound

=============================================================================
